---- MODULE Spec2Model ----
(***************************************************************************)
(* The testimonial slider of globals.js (Slider.init / Slider.initSlider)  *)
(* as a state machine.  A page holds the elements of class "slider"; each  *)
(* one owns the closure state that initSlider creates (current, total,     *)
(* autoplay, startX), the part of the DOM it writes (the track's           *)
(* transform, the dots' is-active class, each slide's aria-hidden and      *)
(* inert, the tabindex, the listeners) and the interval timers it started. *)
(* Slides and dots are numbered from 0, as in the source.                  *)
(***************************************************************************)
EXTENDS Integers, Sequences, FiniteSets, TLC

VARIABLES
    phase,      \* "loading" until the onReady callback has run, then "ready"
    markup,     \* per slider: the static markup found by the selectors
    slider,     \* per slider: closure state, written DOM state, live timers
    lastEvent,  \* history: the handler that ran last and the slider it ran on
    form,       \* the booking form: its field, its submit button, its timers
    nav,        \* the nav element, the scroll position, the throttle of onScroll
    summary,    \* the debounced update of the booking summary and its timers
    accordion,  \* per accordion and item: the is-open class, aria-expanded
    vehicle     \* the vehicle selector: currentIndex, the image, the buttons

widgets == <<nav, summary, accordion, vehicle>>

vars == <<phase, markup, slider, lastEvent, form, widgets>>

(***************************************************************************)
(* Bounds of the model.                                                    *)
(***************************************************************************)
MaxSlides == 3      \* a slider has at most this many .slider__slide elements
MaxHandles == 3     \* setInterval is called at most this often per slider
MaxIndex == 5       \* goTo is exercised directly on -MaxIndex .. MaxIndex
MaxSubmits == 3     \* handleSubmit passes validation at most this often
ThrottleTicks == 3  \* the throttle window, in steps of time
WaitTicks == 3      \* the wait of debounce, in steps of time
MaxCalls == 4       \* the debounced function is called at most this often
MaxItems == 3       \* an accordion has at most this many items
MaxUpdates == 2     \* at most this many updateImage timers wait at a time

(***************************************************************************)
(* Program constants.                                                      *)
(***************************************************************************)
SwipeThreshold == 50
ScrollThreshold == 80

Sliders == {1, 2}

Keys == {"ArrowRight", "ArrowLeft", "Enter"}

\* clientX values of a touch: enough to produce dx of 0, +-49, +-50 and +-51.
TouchXs == {0, SwipeThreshold - 1, SwipeThreshold, SwipeThreshold + 1}

\* The values of the data-interval attribute: absent, "0", "-5", "abc", "3000".
AbsentAttr == [present |-> FALSE, value |-> <<>>]
Attr(chars) == [present |-> TRUE, value |-> chars]
IntervalAttrs ==
    { AbsentAttr,
      Attr(<<"0">>),
      Attr(<<"-", "5">>),
      Attr(<<"a", "b", "c">>),
      Attr(<<"3", "0", "0", "0">>) }

(***************************************************************************)
(* JavaScript arithmetic and conversions.                                  *)
(***************************************************************************)
\* a % b of JavaScript for b > 0: the remainder takes the sign of a.
JsRem(a, b) == IF a >= 0 THEN a % b ELSE -((-a) % b)

Abs(n) == IF n < 0 THEN -n ELSE n

DigitChars == {"0", "1", "2", "3", "4", "5", "6", "7", "8", "9"}

DigitVal(ch) ==
    CASE ch = "0" -> 0 [] ch = "1" -> 1 [] ch = "2" -> 2 [] ch = "3" -> 3
      [] ch = "4" -> 4 [] ch = "5" -> 5 [] ch = "6" -> 6 [] ch = "7" -> 7
      [] ch = "8" -> 8 [] ch = "9" -> 9

NaN == [nan |-> TRUE, val |-> 0]
Num(n) == [nan |-> FALSE, val |-> n]

\* The value of the longest prefix of digits of chars, read after acc;
\* seen tells whether a digit has been read.
RECURSIVE ParseDigits(_, _, _)
ParseDigits(chars, acc, seen) ==
    IF chars # <<>> /\ Head(chars) \in DigitChars
    THEN ParseDigits(Tail(chars), 10 * acc + DigitVal(Head(chars)), TRUE)
    ELSE IF seen THEN Num(acc) ELSE NaN

\* parseInt(chars, 10): leading blanks, an optional sign, then digits.
RECURSIVE parseInt(_)
parseInt(chars) ==
    IF chars # <<>> /\ Head(chars) = " " THEN parseInt(Tail(chars))
    ELSE IF chars # <<>> /\ Head(chars) \in {"-", "+"}
    THEN LET r == ParseDigits(Tail(chars), 0, FALSE)
         IN  IF r.nan THEN NaN
             ELSE IF Head(chars) = "-" THEN Num(-r.val) ELSE r
    ELSE ParseDigits(chars, 0, FALSE)

\* Variant of IsPositive: the truthiness of interval, as in `if (interval)`.
IsPositiveTruthy(n) == ~n.nan /\ n.val # 0

\* interval > 0, false for NaN.
IsPositive(n) == ~n.nan /\ n.val > 0

\* String(b) for a boolean, as setAttribute stores it.
BoolAttr(b) == IF b THEN "true" ELSE "false"

(***************************************************************************)
(* Markup: what the selectors of initSlider find under a .slider element.  *)
(***************************************************************************)
Markups ==
    [track : BOOLEAN,            \* $('.slider__track', slider) is an element
     slides : 0 .. MaxSlides,    \* $$('.slider__slide', slider).length
     prev : BOOLEAN,             \* $('.slider__prev', slider) is an element
     next : BOOLEAN,             \* $('.slider__next', slider) is an element
     dots : BOOLEAN,             \* $('.slider__dots', slider) is an element
     interval : IntervalAttrs]   \* slider.dataset.interval

\* The other slider of the page lacks its track or its slides.
SecondMarkups ==
    { m \in Markups :
        /\ m.interval = AbsentAttr
        /\ ~m.prev /\ m.next /\ m.dots
        /\ \/ ~m.track /\ m.slides = 2
           \/ m.track /\ m.slides = 0 }

Pages == { p \in [Sliders -> Markups] : p[2] \in SecondMarkups }

(***************************************************************************)
(* The track's inline transform, kept as the pieces of the template        *)
(* literal `translateX(-${current * 100}%)`.                               *)
(***************************************************************************)
NoTransform == [fn |-> "", sign |-> "", num |-> 0, unit |-> ""]

\* Variant of TranslateX: the factor 100 left out.
TranslateXUnscaled(c) == [fn |-> "translateX", sign |-> "-", num |-> c, unit |-> "%"]

\* `translateX(-${c * 100}%)`
TranslateX(c) == [fn |-> "translateX", sign |-> "-", num |-> c * 100, unit |-> "%"]

\* The text of a transform value; String(n) writes a negative n with its "-".
CssText(t) ==
    IF t = NoTransform THEN ""
    ELSE t.fn \o "(" \o t.sign \o ToString(t.num) \o t.unit \o ")"

\* A percentage is an optional sign and a number: "--100%" does not parse.
ValidCss(t) == t.num >= 0

\* style.transform = value: a value that does not parse is dropped.
StyleAssign(old, value) == IF ValidCss(value) THEN value ELSE old

\* The horizontal offset a transform value denotes, in percent of the track.
Offset(t) == IF t.sign = "-" THEN -t.num ELSE t.num

(***************************************************************************)
(* State of one slider.                                                    *)
(***************************************************************************)
SlideIds(n) == 0 .. n - 1

\* Before initSlider has run: the markup as parsed, no closure, no timers.
Blank(m) ==
    [initialized |-> FALSE,
     total |-> 0,
     current |-> 0,
     startX |-> 0,
     autoplay |-> 0,
     handles |-> 0,
     timers |-> {},
     listeners |-> {},
     tabindex |-> "",
     transform |-> NoTransform,
     dots |-> [i \in SlideIds(0) |-> FALSE],
     ariaHidden |-> [i \in SlideIds(m.slides) |-> ""],
     inert |-> [i \in SlideIds(m.slides) |-> FALSE]]

\* Variants of WrapIndex: index % total, and an index held at the last slide.
WrapIndexNoAdd(index, total) == JsRem(index, total)
WrapIndexClamp(index, total) ==
    IF index >= total THEN total - 1 ELSE JsRem(index + total, total)

\* (index + total) % total
WrapIndex(index, total) == JsRem(index + total, total)

\* Variants of IsActive and IsHidden: a 1-based position, the negation dropped.
IsActiveOneBased(i, current) == i + 1 = current
IsHiddenInverted(i, current) == i = current

\* i === current, the second argument of classList.toggle('is-active', ...)
IsActive(i, current) == i = current

\* i !== current, the value given to aria-hidden and to inert
IsHidden(i, current) == i # current

goTo(st, index) ==
    LET c == WrapIndex(index, st.total)
    IN  [st EXCEPT
            !.current = c,
            !.transform = StyleAssign(@, TranslateX(c)),
            !.dots = [i \in DOMAIN @ |-> IsActive(i, c)],
            !.ariaHidden = [i \in DOMAIN @ |-> BoolAttr(IsHidden(i, c))],
            !.inert = [i \in DOMAIN @ |-> IsHidden(i, c)]]

\* parseInt(slider.dataset.interval || 0, 10)
Interval(m) ==
    IF ~m.interval.present \/ m.interval.value = <<>>
    THEN parseInt(<<"0">>)
    ELSE parseInt(m.interval.value)

\* setInterval(...): a handle not used before, now live, kept in autoplay.
StartAutoplay(st) ==
    [st EXCEPT !.handles = @ + 1,
               !.autoplay = st.handles + 1,
               !.timers = @ \cup {st.handles + 1}]

\* clearInterval(autoplay)
StopAutoplay(st) == [st EXCEPT !.timers = @ \ {st.autoplay}]

ListenersFor(m) ==
    {"touchstart", "touchend", "keydown"}
        \cup (IF m.dots THEN {"dot.click"} ELSE {})
        \cup (IF m.prev THEN {"prev.click"} ELSE {})
        \cup (IF m.next THEN {"next.click"} ELSE {})
        \cup (IF IsPositive(Interval(m)) THEN {"mouseenter", "mouseleave"} ELSE {})

\* Variant of initSlider: the closing goTo(0) left out.
initSliderNoRender(m, st) ==
    IF ~m.track \/ m.slides = 0 THEN st
    ELSE LET created ==
                 [st EXCEPT
                     !.initialized = TRUE,
                     !.current = 0,
                     !.total = m.slides,
                     !.dots = [i \in SlideIds(IF m.dots THEN m.slides ELSE 0) |-> FALSE],
                     !.listeners = ListenersFor(m),
                     !.startX = 0,
                     !.tabindex = "0"]
         IN  IF IsPositive(Interval(m)) THEN StartAutoplay(created) ELSE created

\* Variant of initSlider: the guard returns only when both are missing.
initSliderAndGuard(m, st) ==
    IF ~m.track /\ m.slides = 0 THEN st
    ELSE LET created ==
                 [st EXCEPT
                     !.initialized = TRUE,
                     !.current = 0,
                     !.total = m.slides,
                     !.dots = [i \in SlideIds(IF m.dots THEN m.slides ELSE 0) |-> FALSE],
                     !.listeners = ListenersFor(m),
                     !.startX = 0,
                     !.tabindex = "0"]
             started ==
                 IF IsPositive(Interval(m)) THEN StartAutoplay(created) ELSE created
         IN  goTo(started, 0)

initSlider(m, st) ==
    IF ~m.track \/ m.slides = 0 THEN st
    ELSE LET created ==
                 [st EXCEPT
                     !.initialized = TRUE,
                     !.current = 0,
                     !.total = m.slides,
                     !.dots = [i \in SlideIds(IF m.dots THEN m.slides ELSE 0) |-> FALSE],
                     !.listeners = ListenersFor(m),
                     !.startX = 0,
                     !.tabindex = "0"]
             started ==
                 IF IsPositive(Interval(m)) THEN StartAutoplay(created) ELSE created
         IN  goTo(started, 0)

(***************************************************************************)
(* Initial state and the handlers.                                         *)
(***************************************************************************)
\* x is the number the event carries (a dot's position, a clientX, a timer
\* handle, an index given to goTo), key the key of a keydown.
Event(type, s, x, key) == [type |-> type, target |-> s, x |-> x, key |-> key]
\* The booking form as the markup has it: one field with
\* data-validate="required", empty, and a submit button with its label.
ButtonLabel == "Book now"

\* 'Sending…', the text handleSubmit gives the button (the ellipsis
\* character written as three dots).
SendingLabel == "Sending..."

FormBlank(redirect) ==
    [redirect |-> redirect,      \* form.dataset.redirect is set
     value |-> <<>>,             \* field.value, its characters
     error |-> FALSE,            \* the field has its .form-error element
     btnText |-> ButtonLabel,    \* submitBtn.textContent
     btnDisabled |-> FALSE,      \* submitBtn.disabled
     pending |-> <<>>,           \* originalText of each call awaiting its timer
     started |-> 0,              \* calls that have passed validateForm
     toasts |-> 0,               \* success toasts on the page
     redirects |-> <<>>,         \* per redirect timer: older calls still pending
     unloaded |-> FALSE]         \* window.location.href has been assigned

(***************************************************************************)
(* The other widgets of the page, before any of their handlers has run.    *)
(***************************************************************************)
\* Nav: window.scrollY, the nav's is-scrolled class, Nav.lastScrollY, and
\* the closure of throttle: inThrottle and the time left on its timer.
NavBlank(y, scrolled) ==
    [scrollY |-> y,
     isScrolled |-> scrolled,
     lastScrollY |-> 0,
     inThrottle |-> FALSE,
     timers |-> {}]

\* BookingSummary: the closure of debounce (timeout, the handle of the timer
\* set last, 0 for undefined), the live timers, and the history of the
\* calls of the debounced function and of fn.
SummaryBlank ==
    [timeout |-> 0,
     handles |-> 0,              \* setTimeout calls so far
     timers |-> {},              \* live timers: [handle, left, args]
     calls |-> 0,                \* calls of the debounced function so far
     lastArgs |-> <<>>,          \* the arguments of the most recent call
     sinceCall |-> 0,            \* time since the most recent call, capped
     bursts |-> 0,               \* calls made while no timer was waiting
     invoked |-> <<>>]           \* the arguments of each invocation of fn

Accordions == {1, 2}

\* An accordion item: its is-open class and its trigger's aria-expanded.
ItemBlank == [open |-> FALSE, expanded |-> "absent"]

\* The vehicle selector: currentIndex, the image shown and its fade class,
\* the 200 ms timers of updateImage (the type each will show), whether a
\* timer callback has thrown, the data-vehicle of the button of class
\* active ("" for none), and the markup m: whether #carImage,
\* #packageModal and #modalContent exist, the data-vehicle values of the
\* .vehicle-types buttons, and whether the next, previous and book
\* buttons exist.
vehicleKeys == <<"sedan", "suv", "pickup", "van">>

NoVehicle ==
    [elements |-> FALSE, buttons |-> {}, next |-> FALSE, prev |-> FALSE,
     book |-> FALSE]

VehicleBlank(m) ==
    [currentIndex |-> 0,
     image |-> "",
     fade |-> FALSE,
     updates |-> <<>>,
     broken |-> FALSE,
     active |-> "",
     listening |-> FALSE,
     markup |-> m]

WidgetsBlank ==
    /\ nav = NavBlank(0, FALSE)
    /\ summary = SummaryBlank
    /\ accordion = [a \in Accordions |-> <<>>]
    /\ vehicle = VehicleBlank(NoVehicle)


Init ==
    /\ phase = "loading"
    /\ markup \in Pages
    /\ slider = [s \in Sliders |-> Blank(markup[s])]
    /\ lastEvent = Event("none", 0, 0, "")
    /\ form = FormBlank(FALSE)
    /\ WidgetsBlank

Listens(s, type) == phase = "ready" /\ type \in slider[s].listeners

\* The onReady callback: Slider.init() runs initSlider on every .slider.
SliderInit ==
    /\ phase = "loading"
    /\ phase' = "ready"
    /\ slider' = [s \in Sliders |-> initSlider(markup[s], slider[s])]
    /\ lastEvent' = Event("ready", 0, 0, "")
    /\ UNCHANGED <<markup, form, widgets>>

\* Variant of Handle: the closure state is one for all initialized sliders,
\* as with variables declared outside initSlider.
HandleShared(s, type, x, key, st) ==
    /\ slider' = [t \in Sliders |-> IF slider[t].initialized THEN st ELSE slider[t]]
    /\ lastEvent' = Event(type, s, x, key)
    /\ UNCHANGED <<phase, markup, form, widgets>>

Handle(s, type, x, key, st) ==
    /\ slider' = [slider EXCEPT ![s] = st]
    /\ lastEvent' = Event(type, s, x, key)
    /\ UNCHANGED <<phase, markup, form, widgets>>

ClickPrev(s) ==
    /\ Listens(s, "prev.click")
    /\ Handle(s, "prev.click", 0, "", goTo(slider[s], slider[s].current - 1))

ClickNext(s) ==
    /\ Listens(s, "next.click")
    /\ Handle(s, "next.click", 0, "", goTo(slider[s], slider[s].current + 1))

\* Variant of ClickDot: the 1-based number of the label given to goTo.
ClickDotOneBased(s, i) ==
    /\ Listens(s, "dot.click")
    /\ i \in DOMAIN slider[s].dots
    /\ Handle(s, "dot.click", i, "", goTo(slider[s], i + 1))

ClickDot(s, i) ==
    /\ Listens(s, "dot.click")
    /\ i \in DOMAIN slider[s].dots
    /\ Handle(s, "dot.click", i, "", goTo(slider[s], i))

\* One of the live interval timers of the slider fires.
TimerTick(s, h) ==
    /\ phase = "ready"
    /\ h \in slider[s].timers
    /\ Handle(s, "tick", h, "", goTo(slider[s], slider[s].current + 1))

MouseEnter(s) ==
    /\ Listens(s, "mouseenter")
    /\ Handle(s, "mouseenter", 0, "", StopAutoplay(slider[s]))

MouseLeave(s) ==
    /\ Listens(s, "mouseleave")
    /\ slider[s].handles < MaxHandles
    /\ Handle(s, "mouseleave", 0, "", StartAutoplay(slider[s]))

TouchStart(s, x) ==
    /\ Listens(s, "touchstart")
    /\ Handle(s, "touchstart", x, "", [slider[s] EXCEPT !.startX = x])

\* Variant of Swipe: the threshold itself counts as a swipe.
SwipeInclusive(st, x) ==
    LET dx == x - st.startX
    IN  IF Abs(dx) >= SwipeThreshold
        THEN goTo(st, IF dx < 0 THEN st.current + 1 ELSE st.current - 1)
        ELSE st

\* The slider after a touchend at x: one navigation, or none.
Swipe(st, x) ==
    LET dx == x - st.startX
    IN  IF Abs(dx) > SwipeThreshold
        THEN goTo(st, IF dx < 0 THEN st.current + 1 ELSE st.current - 1)
        ELSE st

TouchEnd(s, x) ==
    /\ Listens(s, "touchend")
    /\ Handle(s, "touchend", x, "", Swipe(slider[s], x))

\* Variant of KeyPress: the two arrows exchanged.
KeyPressSwapped(st, key) ==
    IF key = "ArrowRight" THEN goTo(st, st.current - 1)
    ELSE IF key = "ArrowLeft" THEN goTo(st, st.current + 1)
    ELSE st

\* Variant of KeyPress: every key but the left arrow advances.
KeyPressAnyKey(st, key) ==
    IF key = "ArrowLeft" THEN goTo(st, st.current - 1) ELSE goTo(st, st.current + 1)

\* The slider after the keydown handler: both tests run, one after the other.
KeyPress(st, key) ==
    LET right == IF key = "ArrowRight" THEN goTo(st, st.current + 1) ELSE st
    IN  IF key = "ArrowLeft" THEN goTo(right, right.current - 1) ELSE right

KeyDown(s, key) ==
    /\ Listens(s, "keydown")
    /\ Handle(s, "keydown", 0, key, KeyPress(slider[s], key))

Next ==
    \/ SliderInit
    \/ \E s \in Sliders : ClickPrev(s)
    \/ \E s \in Sliders : ClickNext(s)
    \/ \E s \in Sliders : \E i \in SlideIds(MaxSlides) : ClickDot(s, i)
    \/ \E s \in Sliders : \E h \in 1 .. MaxHandles : TimerTick(s, h)
    \/ \E s \in Sliders : MouseEnter(s)
    \/ \E s \in Sliders : MouseLeave(s)
    \/ \E s \in Sliders : \E x \in TouchXs : TouchStart(s, x)
    \/ \E s \in Sliders : \E x \in TouchXs : TouchEnd(s, x)
    \/ \E s \in Sliders : \E key \in Keys : KeyDown(s, key)

Spec == Init /\ [][Next]_vars

(***************************************************************************)
(* goTo as a function of any integer: the page as above, and goTo called   *)
(* directly on an initialized slider with an index of -MaxIndex..MaxIndex. *)
(***************************************************************************)
IndexArgs == -MaxIndex .. MaxIndex

CallGoTo(s, i) ==
    /\ phase = "ready"
    /\ slider[s].initialized
    /\ Handle(s, "goTo", i, "", goTo(slider[s], i))

NextGoTo ==
    \/ Next
    \/ \E s \in Sliders : \E i \in IndexArgs : CallGoTo(s, i)

SpecGoTo == Init /\ [][NextGoTo]_vars

(***************************************************************************)
(* A page of two sliders of two slides each, either of which may lack its  *)
(* track; one of them at most has an interval.                             *)
(***************************************************************************)
PairMarkups ==
    { m \in Markups :
        /\ m.slides = 2
        /\ m.prev /\ m.next /\ m.dots
        /\ m.interval \in {AbsentAttr, Attr(<<"3", "0", "0", "0">>)} }

PairPages ==
    { p \in [Sliders -> PairMarkups] : \E s \in Sliders : p[s].interval = AbsentAttr }

InitPair ==
    /\ phase = "loading"
    /\ markup \in PairPages
    /\ slider = [s \in Sliders |-> Blank(markup[s])]
    /\ lastEvent = Event("none", 0, 0, "")
    /\ form = FormBlank(FALSE)
    /\ WidgetsBlank

SpecPair == InitPair /\ [][Next]_vars

(***************************************************************************)
(* The booking form (BookingForm, FormValidator): one form with one        *)
(* required field and a submit button, on a page without sliders.  A       *)
(* submit event may arrive at any time, also while an earlier call of      *)
(* handleSubmit awaits its timer (a second submit button,                  *)
(* form.requestSubmit()).  The 1200 ms timers fire in the order they were  *)
(* set; a redirect timer, 1500 ms, fires after the calls that were         *)
(* already waiting when it was set.                                        *)
(***************************************************************************)
FieldValues == { <<>>, <<" ">>, <<"A">> }

\* v.trim(), for the blanks at the front; the values here have none behind.
RECURSIVE Trim(_)
Trim(v) == IF v # <<>> /\ Head(v) = " " THEN Trim(Tail(v)) ELSE v

\* rules.required: v.trim().length > 0
Required(v) == Len(Trim(v)) > 0

\* validateForm: showError or clearError on the field; valid iff no error.
validateForm(f) == [f EXCEPT !.error = ~Required(f.value)]

\* handleSubmit up to its await.
handleSubmit(f) ==
    LET v == validateForm(f)
    IN  IF v.error THEN v
        ELSE [v EXCEPT !.pending = Append(@, f.btnText),
                       !.started = @ + 1,
                       !.btnDisabled = TRUE,
                       !.btnText = SendingLabel]

\* handleSubmit after its await, for the call that has waited longest:
\* the toast, the redirect timer, form.reset() and the finally block.
Resume(f) ==
    [f EXCEPT !.toasts = @ + 1,
              !.redirects =
                  LET older == [i \in DOMAIN @ |-> IF @[i] > 0 THEN @[i] - 1 ELSE 0]
                  IN  IF f.redirect THEN Append(older, Len(f.pending) - 1) ELSE older,
              !.value = <<>>,
              !.btnDisabled = FALSE,
              !.btnText = Head(f.pending),
              !.pending = Tail(@)]

InitBooking ==
    /\ phase = "ready"
    /\ markup = [s \in Sliders |->
                    [track |-> FALSE, slides |-> 0, prev |-> FALSE, next |-> FALSE,
                     dots |-> FALSE, interval |-> AbsentAttr]]
    /\ slider = [s \in Sliders |-> Blank(markup[s])]
    /\ lastEvent = Event("none", 0, 0, "")
    /\ form \in { FormBlank(r) : r \in BOOLEAN }
    /\ WidgetsBlank

FormEvent(type, f) ==
    /\ ~form.unloaded
    /\ form' = f
    /\ lastEvent' = Event(type, 0, 0, "")
    /\ UNCHANGED <<phase, markup, slider, widgets>>

\* The user changes the field: the input listener removes a shown error.
Input(v) ==
    /\ v # form.value
    /\ FormEvent("input", [form EXCEPT !.value = v, !.error = FALSE])

\* The field loses focus: the blur listener validates it.
Blur ==
    /\ ~form.unloaded
    /\ FormEvent("blur", validateForm(form))

Submit ==
    /\ form.started < MaxSubmits
    /\ FormEvent("submit", handleSubmit(form))

\* The 1200 ms timer of the oldest waiting call fires.
Settle ==
    /\ form.pending # <<>>
    /\ FormEvent("settle", Resume(form))

\* The 7000 ms timer of a toast fires and the toast leaves.
ToastLeave ==
    /\ form.toasts > 0
    /\ FormEvent("toast.leave", [form EXCEPT !.toasts = @ - 1])

\* The 1500 ms timer of the oldest redirect fires.
Redirect ==
    /\ form.redirects # <<>>
    /\ Head(form.redirects) = 0
    /\ FormEvent("redirect", [form EXCEPT !.unloaded = TRUE])

NextBooking ==
    \/ \E v \in FieldValues : Input(v)
    \/ Blur
    \/ Submit
    \/ Settle
    \/ ToastLeave
    \/ Redirect

SpecBooking == InitBooking /\ [][NextBooking]_vars

(***************************************************************************)
(* Properties.                                                             *)
(***************************************************************************)
Initialized == { s \in Sliders : slider[s].initialized }

\* The slides assistive technology sees, and the ones hidden from it.
VisibleSlides(st) ==
    { i \in DOMAIN st.ariaHidden : st.ariaHidden[i] = "false" /\ ~st.inert[i] }
HiddenSlides(st) ==
    { i \in DOMAIN st.ariaHidden : st.ariaHidden[i] = "true" /\ st.inert[i] }

\* The dots that carry the class is-active.
ActiveDots(st) == { i \in DOMAIN st.dots : st.dots[i] }


\* C1: for every initialized slider 0 <= current < total holds in every
\* reachable state, whatever the order of clicks, dot clicks, swipes, arrow
\* keys and timer ticks.
C1_CurrentInRange ==
    \A s \in Initialized :
        0 <= slider[s].current /\ slider[s].current < slider[s].total

\* A previous click has wrapped from the first slide to the last one.
C1_Witness ==
    \E s \in Initialized :
        /\ lastEvent = Event("prev.click", s, 0, "")
        /\ slider[s].total >= 3
        /\ slider[s].current = slider[s].total - 1
        /\ slider[s].timers # {}

\* C2: for every integer i, negative ones and ones below -total included,
\* goTo(i) sets current to ((i % total) + total) % total, % being the
\* remainder of JavaScript.
C2_GoToNormalizes ==
    [][\A s \in Sliders :
          (lastEvent'.type = "goTo" /\ lastEvent'.target = s)
              => slider'[s].current =
                    JsRem(JsRem(lastEvent'.x, slider[s].total) + slider[s].total,
                          slider[s].total)]_vars

\* C3: after goTo on an initialized slider exactly one slide is visible to
\* assistive technology (aria-hidden "false" and not inert), it is the
\* current one, the one at position k after a click on dot k, and every other
\* slide is hidden and inert.
C3_OneVisibleSlide ==
    \A s \in Initialized :
        /\ VisibleSlides(slider[s]) = {slider[s].current}
        /\ HiddenSlides(slider[s]) = SlideIds(markup[s].slides) \ {slider[s].current}
        /\ (lastEvent.type = "dot.click" /\ lastEvent.target = s)
              => VisibleSlides(slider[s]) = {lastEvent.x}

\* A click on the last dot of a slider of three slides or more has run.
C3_Witness ==
    \E s \in Initialized :
        /\ lastEvent = Event("dot.click", s, slider[s].total - 1, "")
        /\ slider[s].total >= 3
        /\ VisibleSlides(slider[s]) = {slider[s].total - 1}

\* C4: after goTo on a slider initialized with a dots container exactly one
\* dot carries the class is-active, the one at the current position, which is
\* position k after a click on dot k.
C4_OneActiveDot ==
    \A s \in Initialized :
        markup[s].dots =>
            /\ DOMAIN slider[s].dots = SlideIds(slider[s].total)
            /\ ActiveDots(slider[s]) = {slider[s].current}
            /\ (lastEvent.type = "dot.click" /\ lastEvent.target = s)
                  => ActiveDots(slider[s]) = {lastEvent.x}

\* A key press has moved a slider with dots to its last slide.
C4_Witness ==
    \E s \in Initialized :
        /\ markup[s].dots
        /\ lastEvent = Event("keydown", s, 0, "ArrowLeft")
        /\ slider[s].total >= 3
        /\ ActiveDots(slider[s]) = {slider[s].total - 1}

\* C5: in every reachable state of an initialized slider the offset of the
\* track is -100% times current.
C5_OffsetFollowsCurrent ==
    \A s \in Initialized :
        Offset(slider[s].transform) = -100 * slider[s].current

\* A timer tick has moved the track to -200%.
C5_Witness ==
    \E s \in Initialized :
        /\ lastEvent.type = "tick" /\ lastEvent.target = s
        /\ Offset(slider[s].transform) = -200

\* The slider after n calls of goTo(current + 1) in a row.
RECURSIVE NextTimes(_, _)
NextTimes(st, n) ==
    IF n = 0 THEN st ELSE NextTimes(goTo(st, st.current + 1), n - 1)

\* C6: from every reachable state of a slider, total calls of next() in a
\* row bring current back to the value it had.
C6_CircularClosure ==
    \A s \in Initialized :
        NextTimes(slider[s], slider[s].total).current = slider[s].current

\* A next click has closed a round of a slider of three slides or more.
C6_Witness ==
    \E s \in Initialized :
        /\ lastEvent = Event("next.click", s, 0, "")
        /\ slider[s].total >= 3
        /\ slider[s].current = 0
        /\ NextTimes(slider[s], 1).current = 1
        /\ NextTimes(slider[s], slider[s].total - 1).current = slider[s].total - 1

\* C7: the next control sets current to (current + 1) mod total and the
\* previous control sets it to (current - 1 + total) mod total; previous from
\* 0 gives total - 1 and next from total - 1 gives 0.
C7_NextAndPrevious ==
    [][\A s \in Sliders :
          /\ (lastEvent'.type = "next.click" /\ lastEvent'.target = s)
                => /\ slider'[s].current = (slider[s].current + 1) % slider[s].total
                   /\ slider[s].current = slider[s].total - 1
                         => slider'[s].current = 0
          /\ (lastEvent'.type = "prev.click" /\ lastEvent'.target = s)
                => /\ slider'[s].current =
                         (slider[s].current - 1 + slider[s].total) % slider[s].total
                   /\ slider[s].current = 0
                         => slider'[s].current = slider[s].total - 1]_vars

\* A next click has wrapped from the last slide to the first one.
C7_Witness ==
    \E s \in Initialized :
        /\ lastEvent = Event("next.click", s, 0, "")
        /\ markup[s].prev
        /\ slider[s].total >= 2
        /\ slider[s].current = 0

\* What C8 says of every slider right after Slider.init(), for the text
\* `text` of the track's transform.
InitialRender(text) ==
    lastEvent'.type = "ready" =>
        \A s \in Sliders :
            (markup[s].track /\ markup[s].slides >= 1) =>
                /\ slider'[s].initialized
                /\ slider'[s].current = 0
                /\ CssText(slider'[s].transform) = text
                /\ Offset(slider'[s].transform) = 0
                /\ VisibleSlides(slider'[s]) = {0}

\* C8 as stated: right after a successful initialization current is 0, the
\* track's transform is translateX(0%) and slide 0 is the one visible slide.
C8_AsStated == [][InitialRender("translateX(0%)")]_vars

\* C8, amended: right after a successful initialization current is 0, the
\* track's transform is the text translateX(-0%), an offset of zero, and
\* slide 0 is the one visible slide.
C8_InitialRender == [][InitialRender("translateX(-0%)")]_vars

\* Slider.init() has just run on a slider of three slides.
C8_Witness ==
    \E s \in Initialized :
        /\ lastEvent.type = "ready"
        /\ slider[s].total >= 3
        /\ slider[s].current = 0
        /\ CssText(slider[s].transform) = "translateX(-0%)"

\* C9: on touchend, with dx the end x minus the x of the touchstart: when
\* |dx| > 50 one navigation is made, next for dx < 0 and previous for dx > 0;
\* when |dx| <= 50, 50 and 49 included, nothing changes.
C9_SwipeThreshold ==
    [][\A s \in Sliders :
          (lastEvent'.type = "touchend" /\ lastEvent'.target = s) =>
              LET dx == lastEvent'.x - slider[s].startX
                  n == slider[s].total
              IN  /\ (Abs(dx) > 50 /\ dx < 0)
                        => slider'[s].current = (slider[s].current + 1) % n
                  /\ (Abs(dx) > 50 /\ dx > 0)
                        => slider'[s].current = (slider[s].current - 1 + n) % n
                  /\ Abs(dx) <= 50 => slider'[s] = slider[s]]_vars

\* A swipe of 51 to the left has moved a slider of three slides from 0 to 1.
C9_Witness ==
    \E s \in Initialized :
        /\ lastEvent = Event("touchend", s, 0, "")
        /\ slider[s].startX = 51
        /\ slider[s].total >= 3
        /\ slider[s].current = 1
        /\ slider[s].listeners = {"touchstart", "touchend", "keydown"}

\* C10: a keydown with the right arrow advances current by one, with the
\* left arrow it retreats by one, both wrapping, and one key press makes one
\* navigation.
C10_ArrowKeys ==
    [][\A s \in Sliders :
          (lastEvent'.type = "keydown" /\ lastEvent'.target = s) =>
              LET n == slider[s].total
              IN  /\ lastEvent'.key = "ArrowRight"
                        => slider'[s].current = (slider[s].current + 1) % n
                  /\ lastEvent'.key = "ArrowLeft"
                        => slider'[s].current = (slider[s].current - 1 + n) % n]_vars

\* A right arrow has moved a slider of three slides to its last slide.
C10_Witness ==
    \E s \in Initialized :
        /\ lastEvent = Event("keydown", s, 0, "ArrowRight")
        /\ slider[s].total >= 3
        /\ slider[s].current = slider[s].total - 1

\* C11: with a positive interval, after a hover-enter and until the next
\* hover-leave no auto-advance timer of the slider is live, whatever hover
\* events came before; stated for the state the mouseenter handler leaves.
C11_NoTimerWhileHovered ==
    \A s \in Initialized :
        (lastEvent.type = "mouseenter" /\ lastEvent.target = s)
            => slider[s].timers = {}

\* C12: for any sequence of hover-enter and hover-leave events, a leave with
\* no enter before it included, a slider has at most one live timer.
C12_AtMostOneTimer ==
    \A s \in Sliders : Cardinality(slider[s].timers) <= 1

\* The values of data-interval C13 is about: absent, "0", "-5", "abc".
AutoplayOff(m) ==
    m.interval \in
        { AbsentAttr, Attr(<<"0">>), Attr(<<"-", "5">>), Attr(<<"a", "b", "c">>) }

\* C13: when data-interval is absent, zero, negative or not a number, the
\* slider never has a timer: setInterval is never called, no hover listener
\* is attached, and no timer tick or hover handler ever runs on it.
C13_NoTimerWithoutInterval ==
    \A s \in Sliders :
        AutoplayOff(markup[s]) =>
            /\ slider[s].timers = {}
            /\ slider[s].handles = 0
            /\ slider[s].listeners \cap {"mouseenter", "mouseleave"} = {}
            /\ lastEvent.target = s
                  => lastEvent.type \notin {"tick", "mouseenter", "mouseleave"}

\* A slider with data-interval="-5" has been moved by a key press.
C13_Witness ==
    \E s \in Initialized :
        /\ markup[s].interval = Attr(<<"-", "5">>)
        /\ lastEvent = Event("keydown", s, 0, "ArrowRight")
        /\ slider[s].current = 1
        /\ slider[s].timers = {}

\* A slider whose markup lacks the track or has no slide.
Incomplete(m) == ~m.track \/ m.slides = 0

\* C14: when the root has no track or no slide, initialization does nothing
\* to it: no dot, no listener, no timer, no tabindex, nothing rendered; the
\* slider stays as the markup left it.
C14_IncompleteIsNoOp ==
    \A s \in Sliders :
        Incomplete(markup[s]) =>
            /\ slider[s] = Blank(markup[s])
            /\ DOMAIN slider[s].dots = {}
            /\ slider[s].listeners = {}
            /\ slider[s].timers = {}
            /\ slider[s].transform = NoTransform

\* Slider.init() has run on a page whose first slider has slides, a dots
\* container and an interval but no track.
C14_Witness ==
    /\ phase = "ready"
    /\ ~markup[1].track
    /\ markup[1].slides >= 2
    /\ markup[1].dots
    /\ IsPositive(Interval(markup[1]))
    /\ slider[1] = Blank(markup[1])

\* What goTo writes: current and the rendering derived from it.
Rendered(st) == <<st.current, st.transform, st.dots, st.ariaHidden, st.inert>>

\* The handlers that call goTo, and Slider.init().
NavEvents ==
    {"ready", "prev.click", "next.click", "dot.click", "tick", "touchend", "keydown"}

\* C16: current and the rendering change only by navigation: touchstart,
\* hover-enter, hover-leave, a key other than the two arrows and a touchend
\* of |dx| <= 50 leave them as they were, and a step that changes them is a
\* navigation handler of that slider or Slider.init().
C16_OnlyNavigationMoves ==
    [][\A s \in Sliders :
          LET t == lastEvent'.type
              dx == lastEvent'.x - slider[s].startX
              quiet ==
                  \/ t \in {"touchstart", "mouseenter", "mouseleave"}
                  \/ t = "keydown" /\ lastEvent'.key \notin {"ArrowRight", "ArrowLeft"}
                  \/ t = "touchend" /\ Abs(dx) <= 50
          IN  /\ (lastEvent'.target = s /\ quiet)
                    => Rendered(slider'[s]) = Rendered(slider[s])
              /\ Rendered(slider'[s]) # Rendered(slider[s])
                    => /\ t \in NavEvents
                       /\ t # "ready" => lastEvent'.target = s]_vars

\* The Enter key has been pressed on a slider that shows its second slide.
C16_Witness ==
    \E s \in Initialized :
        /\ lastEvent = Event("keydown", s, 0, "Enter")
        /\ slider[s].current = 1
        /\ slider[s].startX = 50

\* C17: with a dots container, initialization builds one dot per slide, and
\* a click on the dot at position i, possible for every i in [0, total), sets
\* current to i; without the container no dot is built.
C17_OneDotPerSlide ==
    \A s \in Initialized :
        /\ Cardinality(DOMAIN slider[s].dots) =
              IF markup[s].dots THEN slider[s].total ELSE 0
        /\ markup[s].dots =>
              \A i \in SlideIds(slider[s].total) : ENABLED ClickDot(s, i)
        /\ (lastEvent.type = "dot.click" /\ lastEvent.target = s)
              => slider[s].current = lastEvent.x

\* A click on the middle dot of a slider of three slides has run.
C17_Witness ==
    \E s \in Initialized :
        /\ lastEvent = Event("dot.click", s, 1, "")
        /\ Cardinality(DOMAIN slider[s].dots) = 3
        /\ slider[s].current = 1

\* The slider after n calls of goTo(current - 1) in a row.
RECURSIVE PrevTimes(_, _)
PrevTimes(st, n) ==
    IF n = 0 THEN st ELSE PrevTimes(goTo(st, st.current - 1), n - 1)

\* C18: no state of an initialized slider is terminal: the arrow keys, and
\* the next and previous buttons the markup has, are enabled in every
\* reachable state, and every position of [0, total) is reached from it by
\* next alone and by previous alone.
C18_NoTerminalState ==
    \A s \in Initialized :
        /\ ENABLED KeyDown(s, "ArrowRight")
        /\ ENABLED KeyDown(s, "ArrowLeft")
        /\ markup[s].next => ENABLED ClickNext(s)
        /\ markup[s].prev => ENABLED ClickPrev(s)
        /\ { NextTimes(slider[s], n).current : n \in 0 .. slider[s].total - 1 }
              = SlideIds(slider[s].total)
        /\ { PrevTimes(slider[s], n).current : n \in 0 .. slider[s].total - 1 }
              = SlideIds(slider[s].total)

\* A slider without buttons, dots and timer stands on its last slide after a
\* left arrow from the first one.
C18_Witness ==
    \E s \in Initialized :
        /\ lastEvent = Event("keydown", s, 0, "ArrowLeft")
        /\ slider[s].listeners = {"touchstart", "touchend", "keydown"}
        /\ slider[s].total >= 3
        /\ slider[s].current = slider[s].total - 1

\* C15: sliders are independent: a slider whose setup is aborted does not
\* keep the others from being initialized, and a handler or timer tick of
\* one slider leaves every other slider as it was.
C15_SlidersIndependent ==
    [][/\ lastEvent'.type = "ready" =>
              \A s \in Sliders :
                  ~Incomplete(markup[s]) =>
                      /\ slider'[s].initialized
                      /\ slider'[s].listeners # {}
                      /\ VisibleSlides(slider'[s]) = {0}
                      /\ IsPositive(Interval(markup[s])) => slider'[s].timers # {}
       /\ \A s \in Sliders :
              (lastEvent'.type # "ready" /\ lastEvent'.target = s) =>
                  \A t \in Sliders \ {s} : slider'[t] = slider[t]]_vars

\* A tick has moved one slider; the other, swiped to its second slide
\* before, has not moved.
C15_Witness ==
    \E s \in Initialized :
        \E t \in Initialized \ {s} :
            /\ lastEvent.type = "tick" /\ lastEvent.target = s
            /\ slider[s].current = 0
            /\ slider[t].current = 1
            /\ slider[t].startX = 51

(***************************************************************************)
(* Autoplay left alone: the page as in Init, no pointer, touch or key      *)
(* event, only Slider.init() and the ticks of the timers.  The browser     *)
(* runs the onReady callback and fires every live interval timer again     *)
(* and again.                                                              *)
(***************************************************************************)
Tick(s) == \E h \in 1 .. MaxHandles : TimerTick(s, h)

NextAuto ==
    \/ SliderInit
    \/ \E s \in Sliders : Tick(s)

SpecAuto ==
    /\ Init
    /\ [][NextAuto]_vars
    /\ WF_vars(SliderInit)
    /\ \A s \in Sliders : WF_vars(Tick(s))

\* A slider that initSlider accepts and gives a timer.
Autoplays(m) == ~Incomplete(m) /\ IsPositive(Interval(m))

\* C19: with a positive interval, no hover and no user navigation, every
\* position of [0, total) is current again and again, and each tick moves
\* current to the next position in cyclic order.
C19_AutoplayVisitsAll ==
    /\ \A s \in Sliders : \A i \in SlideIds(MaxSlides) :
          []<>((Autoplays(markup[s]) /\ i < markup[s].slides)
                  => (slider[s].initialized /\ slider[s].current = i))
    /\ [][\A s \in Sliders :
             (lastEvent'.type = "tick" /\ lastEvent'.target = s)
                 => slider'[s].current = (slider[s].current + 1) % slider[s].total]_vars

\* The timer of a slider of three slides has brought it to its last slide.
C19_Witness ==
    \E s \in Initialized :
        /\ Autoplays(markup[s])
        /\ lastEvent.type = "tick" /\ lastEvent.target = s
        /\ slider[s].total >= 3
        /\ slider[s].current = slider[s].total - 1

\* C20: once every submission of a valid form has settled, overlapping
\* ones included, the submit button is enabled and has the text it had
\* before the first submission.
C20_ButtonRestored ==
    (form.started > 0 /\ form.pending = <<>>)
        => (~form.btnDisabled /\ form.btnText = ButtonLabel)

(***************************************************************************)
(* The nav's scroll behaviour (Nav.setupScrollBehavior, throttle) on a     *)
(* page without sliders.  The page may load at any scroll position, with   *)
(* or without the is-scrolled class in its markup.  Time passes in steps;  *)
(* the timer of throttle is due when its time left is 0, and a scroll      *)
(* event may arrive at any time.                                           *)
(***************************************************************************)
ScrollYs == {0, ScrollThreshold, ScrollThreshold + 1, 2 * ScrollThreshold}

\* A page with no slider that initSlider would accept.
NoSliders ==
    [s \in Sliders |->
        [track |-> FALSE, slides |-> 0, prev |-> FALSE, next |-> FALSE,
         dots |-> FALSE, interval |-> AbsentAttr]]

\* The function given to throttle: the class follows window.scrollY.
updateNav(n) ==
    [n EXCEPT !.isScrolled = n.scrollY > ScrollThreshold,
              !.lastScrollY = n.scrollY]

\* onScroll, the throttled function: fn runs unless inThrottle is set.
onScroll(n) ==
    IF ~n.inThrottle
    THEN [updateNav(n) EXCEPT !.inThrottle = TRUE,
                              !.timers = @ \cup {ThrottleTicks}]
    ELSE n

InitNav ==
    /\ phase = "loading"
    /\ markup = NoSliders
    /\ slider = [s \in Sliders |-> Blank(markup[s])]
    /\ lastEvent = Event("none", 0, 0, "")
    /\ form = FormBlank(FALSE)
    /\ nav \in { NavBlank(y, c) : y \in ScrollYs, c \in BOOLEAN }
    /\ summary = SummaryBlank
    /\ accordion = [a \in Accordions |-> <<>>]
    /\ vehicle = VehicleBlank(NoVehicle)

NavEvent(type, y, n) ==
    /\ nav' = n
    /\ lastEvent' = Event(type, 0, y, "")
    /\ UNCHANGED <<markup, slider, form, summary, accordion, vehicle>>

\* The onReady callback: Nav.init() registers onScroll and calls it once.
NavInit ==
    /\ phase = "loading"
    /\ phase' = "ready"
    /\ NavEvent("nav.init", nav.scrollY, onScroll(nav))

\* The window scrolls to y; once the listener is registered, onScroll runs.
Scroll(y) ==
    /\ y # nav.scrollY
    /\ UNCHANGED phase
    /\ LET moved == [nav EXCEPT !.scrollY = y]
       IN  NavEvent("scroll", y, IF phase = "ready" THEN onScroll(moved) ELSE moved)

\* A step of time passes: no timer is due, every timer has one step less.
Elapse ==
    /\ nav.timers # {}
    /\ 0 \notin nav.timers
    /\ UNCHANGED phase
    /\ NavEvent("elapse", nav.scrollY, [nav EXCEPT !.timers = { t - 1 : t \in @ }])

\* The timer of throttle fires: inThrottle = false.
ThrottleExpire ==
    /\ 0 \in nav.timers
    /\ UNCHANGED phase
    /\ NavEvent("expire", nav.scrollY,
                [nav EXCEPT !.inThrottle = FALSE, !.timers = @ \ {0}])

NextNav ==
    \/ NavInit
    \/ \E y \in ScrollYs : Scroll(y)
    \/ Elapse
    \/ ThrottleExpire

SpecNav == InitNav /\ [][NextNav]_vars

\* C21: once the page is ready and the throttle window has expired (no
\* timer of throttle is left, inThrottle is false), the nav has the
\* is-scrolled class exactly if the scroll position is greater than 80,
\* whatever scroll events came before and whenever they came.
C21_NavFollowsScroll ==
    (phase = "ready" /\ ~nav.inThrottle /\ nav.timers = {})
        => (nav.isScrolled <=> nav.scrollY > ScrollThreshold)

(***************************************************************************)
(* The booking summary (BookingSummary.init, debounce) on a page without   *)
(* sliders: every input event of the form calls the debounced update with  *)
(* the event as its argument.  Time passes in steps; a timer is due when   *)
(* its time left is 0, and an input event may arrive at any time, also     *)
(* when a timer is due and has not fired yet.                              *)
(***************************************************************************)
\* The argument lists of the calls: one event each, of two fields.
ArgLists == { <<"service">>, <<"date">> }

\* Variant of debounced: the timer set before is not cancelled.
debouncedNoClear(d, args) ==
    LET h == d.handles + 1
    IN  [d EXCEPT !.timers = @ \cup {[handle |-> h, left |-> WaitTicks, args |-> args]},
                  !.timeout = h,
                  !.handles = h]

\* The function debounce returns: clearTimeout(timeout), then a new timer
\* that will call fn with the arguments of this call.
debounced(d, args) ==
    LET h == d.handles + 1
        cleared == { t \in d.timers : t.handle # d.timeout }
    IN  [d EXCEPT !.timers = cleared \cup {[handle |-> h, left |-> WaitTicks, args |-> args]},
                  !.timeout = h,
                  !.handles = h]

InitSummary ==
    /\ phase = "loading"
    /\ markup = NoSliders
    /\ slider = [s \in Sliders |-> Blank(markup[s])]
    /\ lastEvent = Event("none", 0, 0, "")
    /\ form = FormBlank(FALSE)
    /\ nav = NavBlank(0, FALSE)
    /\ summary = SummaryBlank
    /\ accordion = [a \in Accordions |-> <<>>]
    /\ vehicle = VehicleBlank(NoVehicle)

SummaryEvent(type, d) ==
    /\ summary' = d
    /\ lastEvent' = Event(type, 0, 0, "")
    /\ UNCHANGED <<markup, slider, form, nav, accordion, vehicle>>

\* The onReady callback: BookingSummary.init() registers update on the
\* inputs of the form.
SummaryInit ==
    /\ phase = "loading"
    /\ phase' = "ready"
    /\ SummaryEvent("summary.init", summary)

\* An input event: update(event) is called.
InputEvent(args) ==
    /\ phase = "ready"
    /\ summary.calls < MaxCalls
    /\ UNCHANGED phase
    /\ SummaryEvent("input",
           [debounced(summary, args) EXCEPT
                !.calls = @ + 1,
                !.lastArgs = args,
                !.sinceCall = 0,
                !.bursts = IF summary.timers = {} THEN @ + 1 ELSE @])

\* A step of time passes: no timer is due, every timer has one step less.
Wait ==
    /\ summary.calls > 0
    /\ summary.timers # {} \/ summary.sinceCall < WaitTicks
    /\ \A t \in summary.timers : t.left > 0
    /\ UNCHANGED phase
    /\ SummaryEvent("elapse",
           [summary EXCEPT
                !.timers = { [t EXCEPT !.left = @ - 1] : t \in @ },
                !.sinceCall = IF @ < WaitTicks THEN @ + 1 ELSE @])

\* A timer that is due fires: fn(...args).
Fire ==
    /\ UNCHANGED phase
    /\ \E t \in summary.timers :
           /\ t.left = 0
           /\ SummaryEvent("fn",
                  [summary EXCEPT !.timers = @ \ {t},
                                  !.invoked = Append(@, t.args)])

NextSummary ==
    \/ SummaryInit
    \/ \E args \in ArgLists : InputEvent(args)
    \/ Wait
    \/ Fire

SpecSummary == InitSummary /\ [][NextSummary]_vars

\* C22: at most one timer of the debounced function is waiting; when fn has
\* just been invoked, the wait has passed since the most recent call and
\* fn got the arguments of that call; and every burst of calls (the calls
\* from one made with no timer waiting up to the next invocation of fn)
\* has led to exactly one invocation, the burst still waiting excepted.
C22_Debounce ==
    /\ Cardinality(summary.timers) <= 1
    /\ lastEvent.type = "fn" =>
           /\ summary.sinceCall >= WaitTicks
           /\ summary.invoked[Len(summary.invoked)] = summary.lastArgs
    /\ Len(summary.invoked) + Cardinality(summary.timers) = summary.bursts

\* Two bursts of four calls in all are over: fn has been invoked once for
\* each, with the date event and then with the service event.
C22_Witness ==
    /\ lastEvent.type = "fn"
    /\ summary.calls = 4
    /\ summary.bursts = 2
    /\ summary.invoked = << <<"date">>, <<"service">> >>
    /\ summary.timers = {}

(***************************************************************************)
(* The accordions (Accordion.init, Accordion.toggle) on a page without     *)
(* sliders: two accordions of one to MaxItems items, each item with one    *)
(* trigger.  The markup has at most one open item per accordion; its       *)
(* aria-expanded attributes are absent or agree with the classes.          *)
(***************************************************************************)
BoolText(b) == IF b THEN "true" ELSE "false"

Open(acc) == { i \in DOMAIN acc : acc[i].open }

AccordionMarkups ==
    UNION { { [i \in 1 .. n |->
                  [open |-> i = o,
                   expanded |-> IF aria THEN BoolText(i = o) ELSE "absent"]] :
              o \in 0 .. n, aria \in BOOLEAN } :
            n \in 1 .. MaxItems }

\* Variant of toggle: the siblings are left as they are (multi-open).
toggleMultiOpen(acc, i) ==
    [acc EXCEPT ![i] = [open |-> ~acc[i].open, expanded |-> BoolText(~acc[i].open)]]

\* Accordion.toggle for the trigger of item i of an accordion.
toggle(acc, i) ==
    LET isOpen == acc[i].open
    IN  [j \in DOMAIN acc |->
            IF j # i
            THEN [open |-> FALSE, expanded |-> "false"]
            ELSE [open |-> ~isOpen, expanded |-> BoolText(~isOpen)]]

InitAccordion ==
    /\ phase = "loading"
    /\ markup = NoSliders
    /\ slider = [s \in Sliders |-> Blank(markup[s])]
    /\ lastEvent = Event("none", 0, 0, "")
    /\ form = FormBlank(FALSE)
    /\ nav = NavBlank(0, FALSE)
    /\ summary = SummaryBlank
    /\ accordion \in [Accordions -> AccordionMarkups]
    /\ vehicle = VehicleBlank(NoVehicle)

\* The onReady callback: Accordion.init() gives every trigger its listener.
AccordionInit ==
    /\ phase = "loading"
    /\ phase' = "ready"
    /\ lastEvent' = Event("accordion.init", 0, 0, "")
    /\ UNCHANGED <<markup, slider, form, widgets>>

\* A click on the trigger of item i of accordion a.
TriggerClick(a, i) ==
    /\ phase = "ready"
    /\ i \in DOMAIN accordion[a]
    /\ accordion' = [accordion EXCEPT ![a] = toggle(@, i)]
    /\ lastEvent' = Event("accordion.click", a, i, "")
    /\ UNCHANGED <<phase, markup, slider, form, nav, summary, vehicle>>

NextAccordion ==
    \/ AccordionInit
    \/ \E a \in Accordions : \E i \in 1 .. MaxItems : TriggerClick(a, i)

SpecAccordion == InitAccordion /\ [][NextAccordion]_vars

\* C23: after every step at most one item of each accordion is open; a
\* click on the trigger of a closed item leaves that item open and no
\* other item of its accordion, a click on the trigger of the open item
\* leaves no item of its accordion open; the other accordion is untouched.
C23_OneOpenItem ==
    [][/\ \A a \in Accordions : Cardinality(Open(accordion'[a])) <= 1
       /\ \A a \in Accordions :
              \A i \in DOMAIN accordion[a] :
                  (lastEvent'.type = "accordion.click"
                      /\ lastEvent'.target = a /\ lastEvent'.x = i) =>
                      /\ Open(accordion'[a]) =
                             IF i \in Open(accordion[a]) THEN {} ELSE {i}
                      /\ \A b \in Accordions \ {a} :
                             Open(accordion'[b]) = Open(accordion[b])]_vars

\* The third item of the first accordion has just been opened by a click
\* and is the only open one, its siblings have aria-expanded "false"; the
\* second accordion, of two items, has none open.
C23_Witness ==
    /\ lastEvent.type = "accordion.click"
    /\ lastEvent.target = 1 /\ lastEvent.x = 3
    /\ Len(accordion[1]) = 3
    /\ Open(accordion[1]) = {3}
    /\ accordion[1][1].expanded = "false"
    /\ accordion[1][2].expanded = "false"
    /\ Len(accordion[2]) = 2
    /\ Open(accordion[2]) = {}
    /\ accordion[2][1].expanded = "false"
    /\ accordion[2][2].expanded = "false"

(***************************************************************************)
(* The vehicle selector (initVehicleScripts) on a page without sliders.    *)
(* The markup decides which buttons exist; a .vehicle-types button has the *)
(* data-vehicle its markup gives it, one of vehicleKeys or not.            *)
(***************************************************************************)
Range(seq) == { seq[i] : i \in DOMAIN seq }

\* A data-vehicle that is none of vehicleKeys (a missing attribute, read
\* as undefined, behaves the same).
OtherVehicle == "truck"

VehicleMarkups ==
    [elements : BOOLEAN,
     buttons : { {}, Range(vehicleKeys), Range(vehicleKeys) \cup {OtherVehicle} },
     next : BOOLEAN,
     prev : BOOLEAN,
     book : BOOLEAN]

\* vehicleKeys.indexOf(type), counted from 0; -1 when type is not in it.
indexOf(seq, type) ==
    IF type \in Range(seq)
    THEN (CHOOSE i \in DOMAIN seq : seq[i] = type) - 1
    ELSE -1

\* vehicleKeys[i] for an index counted from 0.
KeyAt(i) == vehicleKeys[i + 1]

\* updateImage: the fade class, and a 200 ms timer that will show the type.
updateImage(v, type) ==
    [v EXCEPT !.fade = TRUE, !.updates = Append(@, type)]

\* selectVehicle(type, buttonElement): button is the data-vehicle of the
\* button clicked, "" for no button.
selectVehicle(v, type, button) ==
    [updateImage(v, type) EXCEPT
        !.currentIndex = indexOf(vehicleKeys, type),
        !.active = button]

nextCar(v) ==
    LET i == JsRem(v.currentIndex + 1, Len(vehicleKeys))
    IN  selectVehicle([v EXCEPT !.currentIndex = i], KeyAt(i), "")

prevCar(v) ==
    LET i == JsRem(v.currentIndex - 1 + Len(vehicleKeys), Len(vehicleKeys))
    IN  selectVehicle([v EXCEPT !.currentIndex = i], KeyAt(i), "")

\* initVehicleScripts: nothing without the three elements; the listeners;
\* with a book button, line 971 names openModal, which nothing declares,
\* and the function throws before its last line; else the first vehicle
\* is selected.
initVehicleScripts(v) ==
    IF ~v.markup.elements THEN v
    ELSE LET l == [v EXCEPT !.listening = TRUE]
         IN  IF v.markup.book THEN l
             ELSE selectVehicle(l, KeyAt(l.currentIndex), "")

InitVehicle ==
    /\ phase = "loading"
    /\ markup = NoSliders
    /\ slider = [s \in Sliders |-> Blank(markup[s])]
    /\ lastEvent = Event("none", 0, 0, "")
    /\ form = FormBlank(FALSE)
    /\ nav = NavBlank(0, FALSE)
    /\ summary = SummaryBlank
    /\ accordion = [a \in Accordions |-> <<>>]
    /\ vehicle \in { VehicleBlank(m) : m \in VehicleMarkups }

VehicleEvent(type, v) ==
    /\ vehicle' = v
    /\ lastEvent' = Event(type, 0, 0, "")
    /\ UNCHANGED <<markup, slider, form, nav, summary, accordion>>

\* The document is ready: initVehicleScripts runs.
VehicleInit ==
    /\ phase = "loading"
    /\ phase' = "ready"
    /\ VehicleEvent("vehicle.init", initVehicleScripts(vehicle))

\* A click on the .vehicle-types button whose data-vehicle is type.
TypeClick(type) ==
    /\ vehicle.listening
    /\ type \in vehicle.markup.buttons
    /\ Len(vehicle.updates) < MaxUpdates
    /\ UNCHANGED phase
    /\ VehicleEvent("vehicle.type", selectVehicle(vehicle, type, type))

NextCarClick ==
    /\ vehicle.listening
    /\ vehicle.markup.next
    /\ Len(vehicle.updates) < MaxUpdates
    /\ UNCHANGED phase
    /\ VehicleEvent("vehicle.next", nextCar(vehicle))

PrevCarClick ==
    /\ vehicle.listening
    /\ vehicle.markup.prev
    /\ Len(vehicle.updates) < MaxUpdates
    /\ UNCHANGED phase
    /\ VehicleEvent("vehicle.prev", prevCar(vehicle))

\* The oldest timer of updateImage fires: vehicles[type].image throws for
\* a type that vehicles does not have, and the fade class stays.
ImageTimer ==
    /\ vehicle.updates # <<>>
    /\ UNCHANGED phase
    /\ LET type == Head(vehicle.updates)
           rest == [vehicle EXCEPT !.updates = Tail(@)]
       IN  VehicleEvent("vehicle.image",
               IF type \in Range(vehicleKeys)
               THEN [rest EXCEPT !.image = type, !.fade = FALSE]
               ELSE [rest EXCEPT !.broken = TRUE])

NextVehicle ==
    \/ VehicleInit
    \/ \E type \in Range(vehicleKeys) \cup {OtherVehicle} : TypeClick(type)
    \/ NextCarClick
    \/ PrevCarClick
    \/ ImageTimer

SpecVehicle == InitVehicle /\ [][NextVehicle]_vars

\* C24: after every step currentIndex is an index of vehicleKeys
\* (0 <= currentIndex < vehicleKeys.length), a click on the next button
\* moves it one up and a click on the previous button one down, around
\* the ends.
C24_IndexValid ==
    [][/\ vehicle'.currentIndex \in 0 .. Len(vehicleKeys) - 1
       /\ lastEvent'.type = "vehicle.next" =>
              vehicle'.currentIndex = (vehicle.currentIndex + 1) % Len(vehicleKeys)
       /\ lastEvent'.type = "vehicle.prev" =>
              vehicle'.currentIndex = (vehicle.currentIndex - 1) % Len(vehicleKeys)]_vars

====
